---- MODULE Spec2Model ----
(***************************************************************************)
(* A model of lib/tbinary.js: the BSON Binary value, a byte store with a   *)
(* write cursor.  One Binary instance is modelled; Init is the state the   *)
(* constructor leaves, and every method call is one action.                *)
(*                                                                         *)
(* Offsets are 0-based as in the source; the cells of a store are kept in  *)
(* a 1-based sequence, so offset i lives at cells[i + 1].                  *)
(***************************************************************************)
EXTENDS Integers, Sequences, FiniteSets, TLC

(* ------------------------------------------------------------------ *)
(* Program constants                                                    *)
(* ------------------------------------------------------------------ *)

BSON_BINARY_SUBTYPE_DEFAULT == 0

BUFFER_SIZE == 256

(* ------------------------------------------------------------------ *)
(* Bounds of the model                                                  *)
(* ------------------------------------------------------------------ *)

\* number of method calls made on the instance
MaxOps == 2

\* longest byte sequence handed to the constructor
MaxSeedLen == 3

\* longest data handed to write
MaxDataLen == 2

(* ------------------------------------------------------------------ *)
(* JavaScript values                                                    *)
(* ------------------------------------------------------------------ *)

\* The value of an array element that was never assigned (new Array(n)),
\* kept apart from every number a caller can store.
undefined == 0 - 65536

Max(a, b) == IF a > b THEN a ELSE b

Min(a, b) == IF a < b THEN a ELSE b

\* An optional argument: given |-> FALSE is an omitted argument.
Omitted == [given |-> FALSE, v |-> 0]

Given(n) == [given |-> TRUE, v |-> n]

\* Buffer.isBuffer(x)
IsBuffer(kind) == kind = "Buffer"

\* Stores whose elements are unsigned bytes (Buffer is a Uint8Array).
IsTyped(kind) == kind \in {"Buffer", "Uint8Array"}

\* The conversion a typed array applies to a stored element (ToUint8).
ToUint8(v) == IF v = undefined THEN 0 ELSE v % 256

\* n cells all holding v
Fill(n, v) == [i \in 1..n |-> v]

\* The bytes an allocation new Buffer(n) may hold before anything is
\* written to it: the platform does not promise their content.
AllocFill == {0, 165}

\* a[i0] = v                                       (0-based index i0 >= 0)
\* A typed array converts the value and ignores an index past its end; a
\* plain array stores the value as it is and extends itself.
ElemSet(kind, cells, i0, v) ==
    IF IsTyped(kind)
    THEN IF i0 < Len(cells) THEN [cells EXCEPT ![i0 + 1] = ToUint8(v)] ELSE cells
    ELSE IF i0 < Len(cells) THEN [cells EXCEPT ![i0 + 1] = v]
         ELSE [i \in 1..(i0 + 1) |->
                 IF i <= Len(cells) THEN cells[i]
                 ELSE IF i = i0 + 1 THEN v ELSE undefined]

\* for (k = 0; k < data.length; k++) a[offset++] = data[k]
RECURSIVE StoreLoop(_, _, _, _, _)
StoreLoop(kind, cells, offset, data, k) ==
    IF k > Len(data) THEN cells
    ELSE StoreLoop(kind, ElemSet(kind, cells, offset + k - 1, data[k]), offset, data, k + 1)

\* a.slice(start, end) for 0 <= start: the elements at [start, end) that exist
Slice(cells, start, end) ==
    SubSeq(cells, Min(start, Len(cells)) + 1, Min(end, Len(cells)))

\* source.copy(target, targetStart, 0, source.length): copies as many bytes
\* as fit into the target, none when targetStart is past its end (the
\* behaviour Node documents for Buffer copy)
BufferCopy(target, targetStart, source) ==
    [i \in 1..Len(target) |->
        IF i > targetStart /\ i - targetStart <= Len(source)
        THEN ToUint8(source[i - targetStart])
        ELSE target[i]]

\* The bytes of text in the default (UTF-8) encoding of new Buffer(text),
\* for character codes below the surrogate range.
Utf8Char(c) ==
    IF c < 128 THEN <<c>>
    ELSE IF c < 2048 THEN <<192 + (c \div 64), 128 + (c % 64)>>
    ELSE <<224 + (c \div 4096), 128 + ((c \div 64) % 64), 128 + (c % 64)>>

RECURSIVE Utf8Encode(_)
Utf8Encode(codes) ==
    IF codes = <<>> THEN <<>>
    ELSE Utf8Char(Head(codes)) \o Utf8Encode(Tail(codes))

\* String.fromCharCode(v), as a character code
FromCharCode(v) == IF v = undefined THEN 0 ELSE v % 65536

(* ------------------------------------------------------------------ *)
(* State                                                                *)
(* ------------------------------------------------------------------ *)

VARIABLES
    sub_type,   \* this.sub_type
    buffer,     \* this.buffer: [kind, cells]; kind "null" when it is null
    position,   \* this.position
    thrown,     \* whether the last call ended in an exception
    result,     \* the last call: its name, its arguments, what it returned
    raw,        \* the object the last value(true) returned
    ctor,       \* the arguments the constructor was called with
    written,    \* offset -> the value last written there by a caller
    maxEnd,     \* the largest end offset a caller has written through
    validCalls, \* whether every put so far was given one byte in 0..255
    nops        \* the number of calls made

vars == <<sub_type, buffer, position, thrown, result, raw, ctor, written, maxEnd,
          validCalls, nops>>

null == [kind |-> "null", cells |-> <<>>]

NoResult(op) == [op |-> op, a |-> 0, b |-> Omitted, ret |-> <<>>]

NoRaw == [kind |-> "none", cells |-> <<>>, snap |-> <<>>]

(* ------------------------------------------------------------------ *)
(* Inputs                                                               *)
(* ------------------------------------------------------------------ *)

\* the byte sequences 10, 20, 30, ... of every length up to n
SeedBytes(n) == [i \in 1..n |-> 10 * i]

\* the texts handed to the constructor, as character codes: "", "A",
\* "\u00e9", "A\u00e9"
Texts == {<<>>, <<65>>, <<233>>, <<65, 233>>}

\* Binary(buffer, subType): buffer is absent, a number, text or bytes
CtorArgs ==
    {[type |-> "undefined", elems |-> <<>>, subType |-> Omitted]}
    \cup {[type |-> "number", elems |-> <<2>>, subType |-> Omitted]}
    \cup {[type |-> t, elems |-> SeedBytes(n), subType |-> Omitted] :
            t \in {"Buffer", "Array", "Uint8Array"}, n \in 0..MaxSeedLen}
    \cup {[type |-> "Array", elems |-> SeedBytes(MaxSeedLen), subType |-> Given(4)]}
    \cup {[type |-> "string", elems |-> s, subType |-> Omitted] :
            s \in Texts}

(* ------------------------------------------------------------------ *)
(* Bookkeeping of what callers wrote (not program state)                *)
(* ------------------------------------------------------------------ *)

\* written, after a caller writes data at offsets [off, off + Len(data))
WrittenAfter(off, data) ==
    [i \in (DOMAIN written) \cup (off..(off + Len(data) - 1)) |->
        IF i >= off /\ i < off + Len(data) THEN data[i - off + 1] ELSE written[i]]

\* the arguments put documents: one byte 0..255, as a number, a one-character
\* string or a one-element sequence
ValidPutArg(byte_value) ==
    /\ Len(byte_value.elems) = 1
    /\ byte_value.elems[1] \in 0..255

\* raw, after a call that leaves the store as newBuffer: a view returned by
\* value(true) shares the memory of the Buffer it was sliced from, until the
\* instance replaces that Buffer
RawAfter(newBuffer, replaced) ==
    IF raw.kind # "view" THEN raw
    ELSE IF replaced THEN [raw EXCEPT !.kind = "detached"]
    ELSE [raw EXCEPT !.cells = SubSeq(newBuffer.cells, 1, Len(raw.cells))]

(* ------------------------------------------------------------------ *)
(* Binary(buffer, subType)                                              *)
(* ------------------------------------------------------------------ *)

Binary(arg, fill) ==
    /\ sub_type = IF arg.type = "number" THEN arg.elems[1]
                  ELSE IF arg.subType.given THEN arg.subType.v
                  ELSE BSON_BINARY_SUBTYPE_DEFAULT
    /\ IF arg.type \notin {"undefined", "number"}
       THEN /\ buffer = IF arg.type = "string"
                        THEN [kind |-> "Buffer", cells |-> Utf8Encode(arg.elems)]
                        ELSE [kind |-> arg.type, cells |-> arg.elems]
            /\ position = Len(arg.elems)
       ELSE /\ buffer = [kind |-> "Buffer", cells |-> Fill(BUFFER_SIZE, fill)]
            /\ position = 0

Init ==
    \E arg \in CtorArgs :
    \E fill \in (IF arg.type \in {"undefined", "number"} THEN AllocFill ELSE {0}) :
        /\ Binary(arg, fill)
        /\ ctor = arg
        /\ thrown = FALSE
        /\ result = NoResult("Binary")
        /\ raw = NoRaw
        /\ written = IF arg.type \in {"undefined", "number"} THEN <<>>
                     ELSE [i \in 0..(Len(arg.elems) - 1) |-> arg.elems[i + 1]]
        /\ maxEnd = IF arg.type \in {"undefined", "number"} THEN 0 ELSE Len(arg.elems)
        /\ validCalls = TRUE
        /\ nops = 0

(* ------------------------------------------------------------------ *)
(* put(byte_value)                                                      *)
(* ------------------------------------------------------------------ *)

\* byte_value is [type, elems]: a number n is elems = <<n>>, a string is its
\* character codes, an array is its elements.
PutArgs ==
    {[type |-> "number", elems |-> <<n>>] : n \in {0 - 1, 65, 256}}
    \cup {[type |-> "string", elems |-> s] : s \in {<<>>, <<65>>}}
    \cup {[type |-> "array", elems |-> s] : s \in {<<65>>, <<1, 2>>}}

\* byte_value['length'] != null && !_.isNumber(byte_value) && byte_value.length != 1
PutRejectsLength(byte_value) ==
    byte_value.type # "number" /\ Len(byte_value.elems) # 1

\* byte_value < 0 and byte_value > 255, for a value that passed the length
\* test: a number or a one-element array compares as its number; a
\* one-character string compares as a digit, a blank or NaN, never below 0
\* nor above 255.
BelowZero(byte_value) ==
    byte_value.type # "string" /\ byte_value.elems[1] < 0

Above255(byte_value) ==
    byte_value.type # "string" /\ byte_value.elems[1] > 255

\* !_.isNumber(byte_value) && byte_value < 0 || byte_value > 255
PutRejectsRange(byte_value) ==
    (byte_value.type # "number" /\ BelowZero(byte_value)) \/ Above255(byte_value)

\* charCodeAt(0), byte_value[0] or byte_value itself
DecodedByte(byte_value) == byte_value.elems[1]

\* the store put moves to when this.buffer is full
PutGrow(buf, fill) ==
    IF IsBuffer(buf.kind)
    THEN [kind |-> "Buffer",
          cells |-> BufferCopy(Fill(BUFFER_SIZE + Len(buf.cells), fill), 0, buf.cells)]
    ELSE [kind |-> "Array",
          cells |-> [i \in 1..(BUFFER_SIZE + Len(buf.cells)) |->
                        IF i <= Len(buf.cells) THEN buf.cells[i] ELSE undefined]]

\* this.buffer.length > this.position
PutHasRoom(buf, pos) == Len(buf.cells) > pos

put(byte_value) ==
    /\ nops < MaxOps
    /\ nops' = nops + 1
    /\ result' = NoResult("put")
    /\ validCalls' = (validCalls /\ ValidPutArg(byte_value))
    /\ IF ValidPutArg(byte_value)
       THEN /\ written' = WrittenAfter(position, <<DecodedByte(byte_value)>>)
            /\ maxEnd' = Max(maxEnd, position + 1)
       ELSE UNCHANGED <<written, maxEnd>>
    /\ UNCHANGED <<sub_type, ctor>>
    /\ IF PutRejectsLength(byte_value)
       THEN thrown' = TRUE /\ UNCHANGED <<buffer, position, raw>>
       ELSE IF PutRejectsRange(byte_value)
       THEN thrown' = TRUE /\ UNCHANGED <<buffer, position, raw>>
       ELSE IF buffer.kind = "null"
       THEN \* this.buffer.length of null
            thrown' = TRUE /\ UNCHANGED <<buffer, position, raw>>
       ELSE \E fill \in (IF PutHasRoom(buffer, position) THEN {0} ELSE AllocFill) :
            LET room == PutHasRoom(buffer, position)
                store == IF room THEN buffer ELSE PutGrow(buffer, fill)
                cells == ElemSet(store.kind, store.cells, position,
                                 DecodedByte(byte_value))
                after == [kind |-> store.kind, cells |-> cells]
            IN  /\ buffer' = after
                /\ position' = position + 1
                /\ raw' = RawAfter(after, ~room)
                /\ thrown' = FALSE

(* ------------------------------------------------------------------ *)
(* write(string, offset)                                                *)
(* ------------------------------------------------------------------ *)

\* string is [type, elems]: a Buffer or an array with its bytes, or a text
\* with its character codes.
WriteData ==
    {[type |-> t, elems |-> Fill(n, 9)] :
        t \in {"Buffer", "Array", "string"}, n \in 0..MaxDataLen}

\* the offsets handed to write: omitted (the cursor), the start, and one
\* past the end of every seeded store
WriteOffsets == {Omitted} \cup {Given(n) : n \in {0, 1, MaxSeedLen + 2}}

\* offset = _.isNumber(offset) ? offset : this.position
WriteOffset(offset, pos) == IF offset.given THEN offset.v ELSE pos

\* this.buffer.length < offset + string.length
WriteTooSmall(buf, off, data) == Len(buf.cells) < off + Len(data)

\* the value write assigns to this.buffer when the store is too small
WriteGrow(buf, data, fill) ==
    IF IsBuffer(buf.kind)
    THEN [kind |-> "Buffer",
          cells |-> BufferCopy(Fill(Len(buf.cells) + Len(data), fill), 0, buf.cells)]
    ELSE null

\* buffer.write(text, 'binary', offset), on a platform that takes the
\* arguments in this order: one byte per character, the low eight bits of
\* its code, as many as fit
BufferWrite(target, offset, codes) == BufferCopy(target, offset, codes)

\* (offset + string.length) > this.position ? (offset + string.length) : this.position
WritePosition(end, pos) == IF end > pos THEN end ELSE pos

write(string, offset) ==
    LET off == WriteOffset(offset, position)
        data == string.elems
    IN
    /\ nops < MaxOps
    /\ nops' = nops + 1
    /\ result' = NoResult("write")
    /\ written' = WrittenAfter(off, data)
    /\ maxEnd' = Max(maxEnd, off + Len(data))
    /\ UNCHANGED <<sub_type, ctor, validCalls>>
    /\ IF buffer.kind = "null"
       THEN \* this.buffer.length of null
            thrown' = TRUE /\ UNCHANGED <<buffer, position, raw>>
       ELSE \E fill \in (IF WriteTooSmall(buffer, off, data) THEN AllocFill ELSE {0}) :
            LET small == WriteTooSmall(buffer, off, data)
                store == IF small THEN WriteGrow(buffer, data, fill) ELSE buffer
            IN
            IF string.type = "Buffer" /\ IsBuffer(store.kind)
            THEN LET after == [store EXCEPT !.cells = BufferCopy(store.cells, off, data)]
                 IN  /\ buffer' = after
                     /\ position' = WritePosition(off + Len(data), position)
                     /\ raw' = RawAfter(after, small)
                     /\ thrown' = FALSE
            ELSE IF string.type = "string" /\ IsBuffer(store.kind)
            THEN LET after == [store EXCEPT !.cells = BufferWrite(store.cells, off, data)]
                 IN  /\ buffer' = after
                     /\ position' = WritePosition(off + Len(data), position)
                     /\ raw' = RawAfter(after, small)
                     /\ thrown' = FALSE
            ELSE \* array data, or Buffer or text data on a store that is no
                 \* Buffer: the element loops; the first assignment to an
                 \* element of null throws
                 IF store.kind = "null" /\ Len(data) > 0
                 THEN /\ buffer' = store
                      /\ raw' = RawAfter(store, small)
                      /\ thrown' = TRUE
                      /\ UNCHANGED position
                 ELSE LET after == [store EXCEPT
                                      !.cells = StoreLoop(store.kind, store.cells, off, data, 1)]
                      IN  /\ buffer' = after
                          /\ position' = WritePosition(off + Len(data), position)
                          /\ raw' = RawAfter(after, small)
                          /\ thrown' = FALSE

(* ------------------------------------------------------------------ *)
(* read(position, length)                                               *)
(* ------------------------------------------------------------------ *)

ReadStarts == 0..2

ReadLengths == {Omitted} \cup {Given(n) : n \in {0 - 1, 0, 1, 2}}

\* a slip that takes a length of 0 as given
ReadLengthZeroGiven(length, pos) ==
    IF length.given /\ length.v >= 0 THEN length.v ELSE pos

\* length = length && length > 0 ? length : this.position
ReadLength(length, pos) ==
    IF length.given /\ length.v # 0 /\ length.v > 0 THEN length.v ELSE pos

\* this.buffer['slice']: Buffer, Uint8Array and Array all have it
HasSlice(kind) == kind \in {"Buffer", "Uint8Array", "Array"}

\* the copy loop into new Uint8Array(length), for a store without slice
ReadLoop(cells, start, n) ==
    [i \in 1..n |-> IF start + i <= Len(cells) THEN ToUint8(cells[start + i]) ELSE 0]

read(start, length) ==
    /\ nops < MaxOps
    /\ nops' = nops + 1
    /\ UNCHANGED <<sub_type, buffer, position, raw, ctor, written, maxEnd, validCalls>>
    /\ IF buffer.kind = "null"
       THEN \* this.buffer['slice'] of null
            /\ thrown' = TRUE
            /\ result' = [op |-> "read", a |-> start, b |-> length, ret |-> <<>>]
       ELSE LET n == ReadLength(length, position)
            IN  /\ thrown' = FALSE
                /\ result' = [op |-> "read", a |-> start, b |-> length,
                              ret |-> IF HasSlice(buffer.kind)
                                      THEN Slice(buffer.cells, start, start + n)
                                      ELSE ReadLoop(buffer.cells, start, n)]

(* ------------------------------------------------------------------ *)
(* value(asRaw)                                                         *)
(* ------------------------------------------------------------------ *)

\* buffer.toString('binary', 0, end): one character per byte
BinaryString(cells, end) == Slice(cells, 0, end)

\* convertArraytoUtf8BinaryString(byteArray, 0, endIndex)
convertArraytoUtf8BinaryString(cells, endIndex) ==
    [i \in 1..endIndex |->
        FromCharCode(IF i <= Len(cells) THEN cells[i] ELSE undefined)]

\* asRaw is TRUE or FALSE; an omitted asRaw is FALSE
value(asRaw) ==
    /\ nops < MaxOps
    /\ nops' = nops + 1
    /\ UNCHANGED <<sub_type, buffer, position, ctor, written, maxEnd, validCalls>>
    /\ LET done(ret) == [op |-> "value", a |-> IF asRaw THEN 1 ELSE 0,
                         b |-> Omitted, ret |-> ret]
       IN
       IF IsBuffer(buffer.kind)
       THEN /\ thrown' = FALSE
            /\ IF asRaw
               THEN \* Buffer slice: a view of the same memory
                    LET view == Slice(buffer.cells, 0, position)
                    IN  /\ result' = done(view)
                        /\ raw' = [kind |-> "view", cells |-> view, snap |-> view]
               ELSE /\ result' = done(BinaryString(buffer.cells, position))
                    /\ UNCHANGED raw
       ELSE IF asRaw
       THEN IF buffer.kind = "null"
            THEN \* this.buffer['slice'] of null
                 thrown' = TRUE /\ result' = done(<<>>) /\ UNCHANGED raw
            ELSE \* Array and Uint8Array slice: a copy
                 LET copy == Slice(buffer.cells, 0, position)
                 IN  /\ thrown' = FALSE
                     /\ result' = done(copy)
                     /\ raw' = [kind |-> "copy", cells |-> copy, snap |-> copy]
       ELSE IF buffer.kind = "null" /\ position > 0
       THEN \* byteArray[i] of null
            thrown' = TRUE /\ result' = done(<<>>) /\ UNCHANGED raw
       ELSE /\ thrown' = FALSE
            /\ result' = done(convertArraytoUtf8BinaryString(buffer.cells, position))
            /\ UNCHANGED raw

(* ------------------------------------------------------------------ *)
(* Specification                                                        *)
(* ------------------------------------------------------------------ *)

Next ==
    \/ \E byte_value \in PutArgs : put(byte_value)
    \/ \E string \in WriteData, offset \in WriteOffsets : write(string, offset)
    \/ \E start \in ReadStarts, length \in ReadLengths : read(start, length)
    \/ \E asRaw \in BOOLEAN : value(asRaw)

Spec == Init /\ [][Next]_vars

(* ------------------------------------------------------------------ *)
(* Properties                                                           *)
(* ------------------------------------------------------------------ *)

Capacity == Len(buffer.cells)

\* C1: in every state reached by constructing a Binary and applying put and
\* write calls, position <= the length of the backing store.
C1_PositionWithinStore ==
    buffer.kind # "null" => position <= Capacity

\* C2: after valid put and write calls, position is the largest end offset
\* written through, and every offset below position that a caller wrote
\* holds the value last written to it.  (Stated for a Binary constructed
\* from nothing, a number or a byte sequence.)
C2_LastWriteWins ==
    (validCalls /\ ctor.type # "string") =>
        /\ position = maxEnd
        /\ \A i \in DOMAIN written :
              i < position =>
                  /\ buffer.kind # "null"
                  /\ i < Capacity
                  /\ buffer.cells[i + 1] = written[i]

\* the arguments C3 names: a string or sequence whose length is not 1, a
\* number outside 0..255
C3_Invalid(byte_value) ==
    \/ byte_value.type # "number" /\ Len(byte_value.elems) # 1
    \/ byte_value.type = "number"
          /\ (byte_value.elems[1] < 0 \/ byte_value.elems[1] > 255)

\* C3: put fails on every such argument, and leaves the store and position
\* as they were.
C3_PutRejectsInvalid ==
    [][\A byte_value \in PutArgs :
          (put(byte_value) /\ C3_Invalid(byte_value)) =>
              (thrown' /\ buffer' = buffer /\ position' = position)]_vars

\* C4: a Binary constructed from a text with character codes in 0..255 has
\* position = capacity = the length of the text and byte i = the code of
\* character i, and value(false) returns the text.
C4_TextRoundTrip ==
    ctor.type = "string" =>
        /\ nops = 0 =>
              /\ position = Len(ctor.elems)
              /\ buffer.kind # "null"
              /\ buffer.cells = ctor.elems
        /\ (nops = 1 /\ result.op = "value" /\ result.a = 0) =>
              (~thrown /\ result.ret = ctor.elems)

\* C5: write never fails; afterwards position is the larger of the old
\* position and offset + data.length, and the data is stored at
\* [offset, offset + data.length).
C5_WriteNeverFails ==
    [][\A string \in WriteData, offset \in WriteOffsets :
          write(string, offset) =>
              LET off == IF offset.given THEN offset.v ELSE position
                  n == Len(string.elems)
              IN  /\ ~thrown'
                  /\ position' = Max(position, off + n)
                  /\ buffer'.kind # "null"
                  /\ \A k \in 1..n :
                        /\ off + k <= Len(buffer'.cells)
                        /\ buffer'.cells[off + k] = string.elems[k]]_vars

\* C6: a read whose window [start, start + length) extends past the capacity
\* of the store is rejected with an error (length being the cursor when
\* omitted or not positive).
C6_ReadRejectsOutOfRange ==
    (result.op = "read" /\ buffer.kind # "null") =>
        LET n == IF result.b.given /\ result.b.v > 0 THEN result.b.v ELSE position
        IN  (n > 0 /\ result.a + n > Capacity) => thrown

\* C7: the sequence value(true) returned keeps the content it had when it
\* was returned, whatever put and write do afterwards.
C7_RawIsOwnedCopy ==
    raw.kind # "none" => raw.cells = raw.snap

\* C8: a growth event (put on a full store, write whose end offset exceeds
\* the capacity) leaves every byte below the old position, other than those
\* the write itself stores, unchanged at its offset in the new store, for a
\* store that is a Buffer or a plain array.
C8_GrowthPreservesPrefix ==
    [][buffer.kind \in {"Buffer", "Array"} =>
          /\ \A byte_value \in PutArgs :
                (put(byte_value) /\ ~thrown' /\ ~PutHasRoom(buffer, position)) =>
                    /\ buffer'.kind # "null"
                    /\ \A i \in 1..Min(position, Capacity) :
                          i <= Len(buffer'.cells) /\ buffer'.cells[i] = buffer.cells[i]
          /\ \A string \in WriteData, offset \in WriteOffsets :
                LET off == IF offset.given THEN offset.v ELSE position
                IN  (write(string, offset) /\ off + Len(string.elems) > Capacity) =>
                        /\ buffer'.kind # "null"
                        /\ \A i \in 1..Min(position, Capacity) :
                              (i <= off \/ i > off + Len(string.elems)) =>
                                  /\ i <= Len(buffer'.cells)
                                  /\ buffer'.cells[i] = buffer.cells[i]]_vars

\* the part of the window [start, start + n) that the store holds
StoredWindow(cells, start, n) ==
    [i \in 1..Max(0, Min(n, Len(cells) - start)) |-> cells[start + i]]

\* C9: read with the length omitted, zero or negative takes the cursor as
\* the length, whatever start is; with a positive length whose window lies
\* within the capacity it returns exactly the bytes [start, start + length);
\* it changes neither the store nor position.
C9_Read ==
    [][result'.op = "read" =>
          LET start == result'.a
              length == result'.b
          IN  /\ buffer' = buffer
              /\ position' = position
              /\ buffer.kind # "null" =>
                    /\ ~thrown'
                    /\ (~length.given \/ length.v <= 0) =>
                          result'.ret = StoredWindow(buffer.cells, start, position)
                    /\ (length.given /\ length.v > 0 /\ start + length.v <= Capacity) =>
                          result'.ret = [i \in 1..length.v |-> buffer.cells[start + i]]]_vars

\* read(0) on a value holding 10, 20, 30 has returned all three bytes
C9_Witness ==
    /\ result.op = "read"
    /\ ~thrown
    /\ result.a = 0
    /\ result.b = Omitted
    /\ position = 3
    /\ result.ret = <<10, 20, 30>>

\* C10: the store always exists and its capacity never decreases: put on a
\* full store moves to capacity + 256, write whose end offset exceeds the
\* capacity moves to capacity + data.length, for a store that is a Buffer or
\* a plain array.
C10_CapacityOnlyGrows ==
    [][buffer.kind \in {"Buffer", "Array"} =>
          /\ buffer'.kind # "null"
          /\ Len(buffer'.cells) >= Capacity
          /\ \A byte_value \in PutArgs :
                (put(byte_value) /\ ~thrown' /\ ~PutHasRoom(buffer, position)) =>
                    Len(buffer'.cells) = Capacity + BUFFER_SIZE
          /\ \A string \in WriteData, offset \in WriteOffsets :
                LET off == IF offset.given THEN offset.v ELSE position
                IN  (write(string, offset) /\ off + Len(string.elems) > Capacity) =>
                        Len(buffer'.cells) = Capacity + Len(string.elems)]_vars

====
